---- MODULE Spec2Model ----
(***************************************************************************)
(* Model of the ptypy coordination core:                                   *)
(*   - ptypy/utils/parallel.py : LoadManager.assign, _MPIop, barrier       *)
(*   - ptypy/engines/base.py   : BaseEngine initialize / prepare /         *)
(*                               iterate / finalize                        *)
(* Four specifications share the variables of this module:                 *)
(*   SpecLM  - one LoadManager driven by arbitrary assign calls            *)
(*   SpecEng - one engine driven by arbitrary lifecycle calls              *)
(*   SpecPar - `size` ranks running the iterate loop against the barrier   *)
(*   SpecRed - the collective reduction _MPIop over bounded inputs         *)
(***************************************************************************)
EXTENDS Integers, Sequences, FiniteSets, TLC

(* ------------------------------ bounds --------------------------------- *)
\* number of participating ranks (parallel.size)
size == 3
\* longest idlist passed to one bulk assign call
MaxN == 7
\* assign calls are cut off once the cumulative load would exceed this
MaxLoad == 9

\* p.numiter, the configured total number of iterations
numiter == 3
\* p.numiter_contiguous, the default batch of one iterate() call
numiter_contiguous == 1
\* largest num passed to iterate(num); the smallest is -1
MaxNum == 2
\* lifecycle calls made on the engine in one behaviour
MaxCalls == 6

\* iterate calls every rank makes in the lock-step run
MaxSched == 2
\* largest number of processes the reductions are run with
MaxRanks == 2
\* longest list of arrays one process passes to a reduction
MaxSlots == 2

Ranks == 0 .. (size - 1)
\* element values of the arrays that are reduced
Vals == {1, 2}
\* the arrays that are reduced: one-element and two-element vectors
Arrays == {<<v>> : v \in Vals} \cup {<<1, 2>>, <<2, 1>>}
ArraysOf(n) == {x \in Arrays : Len(x) = n}
VecLens == {Len(x) : x \in Arrays}
\* values the engine_iterate hook may return
Errors == {0, 1}
\* opaque item keys handed to assign
Keys == {"a", "b"}
VARIABLES
    \* LoadManager
    load,       \* self.load     : rank -> cumulative load
    rank_of,    \* self.rank_of  : key -> rank, for the keys recorded so far
    mode,       \* last assign call: "new" (none yet), "anon" (idlist is
                \* None) or "bulk" (idlist is a sequence)
    idlist,     \* the idlist of the last bulk call (<<>> otherwise)
    ret,        \* the list R built by the last call: rank -> index list
    raised,     \* TRUE when the last call ended in an uncaught IndexError
                \* instead of returning R
    load0,      \* self.load as it was when the last assign call started
    given       \* rank -> number of indices returned for that rank by all
                \* assign calls so far

VARIABLES
    \* BaseEngine (one engine, one process)
    initialized, \* TRUE once initialize() has created curiter and errorlist
    curiter,     \* self.curiter
    errorlist,   \* self.errorlist
    itermeta,    \* self.itermeta
    finished,    \* self.finished
    iter_info,   \* self.ptycho.runtime.iter_info
    hooks,       \* number of calls of the engine_iterate hook so far
    barriers,    \* number of calls of parallel.barrier() so far
    lastcall,    \* the last lifecycle call and its argument
    run,         \* -1, or the number of iterate() calls made since prepare()
                 \* ran on an engine whose counter and error history were as
                 \* initialize() left them, when nothing but iterate() and
                 \* finalize() was called since
    ncalls       \* lifecycle calls made so far

engvars == <<initialized, curiter, errorlist, itermeta, finished, iter_info,
             hooks, barriers, lastcall, run, ncalls>>

VARIABLES
    \* BaseEngine.iterate on every rank of an MPI run
    eng,         \* rank -> the engine fields of that rank's engine
    pc,          \* rank -> "idle" (outside iterate), "loop" (at the head of
                 \* the for loop), "hook" (inside engine_iterate) or
                 \* "barrier" (inside parallel.barrier)
    loopn,       \* rank -> the n of `for n in range(N)`
    loopN,       \* rank -> the N of the iterate call under way
    callno,      \* rank -> iterate calls started so far
    sched        \* the num arguments of the iterate calls every rank makes

parvars == <<eng, pc, loopn, loopN, callno, sched>>

VARIABLES
    \* one collective operation called by every process
    nproc,       \* parallel.size of the run
    coll,        \* the operation: "MPIop", "allreduce" or "barrier"
    a,           \* rank -> the list a that rank passes to _MPIop (<<>> is
                 \* None, an array is a non-empty sequence of its elements)
    op,          \* "SUM", "MAX", "MIN" or "PROD"; "None" for allreduce
                 \* without op
    axis,        \* "None" (axis is None), "0" or "1"
    result,      \* rank -> outcome of the _MPIop call on that rank
    called,      \* TRUE once the call was made
    buf,         \* rank -> the array that rank passes to allreduce, which
                 \* works in place
    bar          \* rank -> "out", "in" (inside barrier()) or "done"

redvars == <<nproc, coll, a, op, axis, result, called, buf, bar>>

lmvars == <<load, rank_of, mode, idlist, ret, raised, load0, given>>

(* ----------------------------- helpers --------------------------------- *)
RECURSIVE SumSeq(_)
SumSeq(s) == IF s = <<>> THEN 0 ELSE Head(s) + SumSeq(Tail(s))

\* arr.sum() of an array indexed by rank
SumLoad(arr) == SumSeq([j \in 1 .. size |-> arr[j - 1]])

\* arr[::-1]
Reversed(arr) == [r \in Ranks |-> arr[size - 1 - r]]

\* arr.argmin(): index of the first occurrence of the minimum
ArgMin(arr) ==
    CHOOSE r \in Ranks : /\ \A q \in Ranks : arr[q] >= arr[r]
                         /\ \A q \in Ranks : q < r => arr[q] > arr[r]

\* the function f with every value computed once (a numpy array stores its
\* elements; it does not recompute them on access)
RECURSIVE Tabulate(_, _)
Tabulate(f, S) ==
    IF S = {} THEN <<>>
    ELSE LET x == CHOOSE y \in S : TRUE
         IN  (x :> f[x]) @@ Tabulate(f, S \ {x})

Array(f) == Tabulate(f, DOMAIN f)

\* all sequences over S of length at most n
SeqsUpTo(S, n) == UNION {[1 .. m -> S] : m \in 0 .. n}

(* --------------------- LoadManager.assign, anonymous ------------------- *)
\* variant of AnonRank: the first minimum instead of the last
AnonRank_first(ld) == ArgMin(ld)

\* r = size - 1 - self.load[::-1].argmin()
AnonRank(ld) == size - 1 - ArgMin(Reversed(ld))

\* [[0] if rr==r else [] for rr in range(size)]
AnonOut(r) == [rr \in Ranks |-> IF rr = r THEN <<0>> ELSE <<>>]

(* ----------------------- LoadManager.assign, bulk ---------------------- *)
\* total_load = self.load.sum() + Nid
TotalLoad(ld, Nid) == SumLoad(ld) + Nid

\* li = total_load > self.load*size
Eligible(ld, Nid) ==
    LET total_load == TotalLoad(ld, Nid)
    IN  Array([r \in Ranks |-> total_load > ld[r] * size])

\* nsize = li.sum()
NSize(li) == Cardinality({r \in Ranks : li[r]})

\* the ranks selected by the boolean mask li, in rank order: position j of
\* an array indexed with [li] belongs to rank Masked(li)[j]
Masked(li) ==
    Array([j \in 1 .. NSize(li) |->
        CHOOSE r \in Ranks :
            li[r] /\ Cardinality({q \in Ranks : li[q] /\ q <= r}) = j])

\* variant of Partition: scaled by size instead of nsize
Partition_size(ld, li, Nid) ==
    LET m == Masked(li)
        nsize == NSize(li)
        total_load == SumSeq([j \in 1 .. nsize |-> ld[m[j]]]) + Nid
    IN  Array([j \in 1 .. nsize |-> total_load - ld[m[j]] * size])

\* total_load = self.load[li].sum() + Nid
\* partition = total_load - self.load[li]*nsize
Partition(ld, li, Nid) ==
    LET m == Masked(li)
        nsize == NSize(li)
        total_load == SumSeq([j \in 1 .. nsize |-> ld[m[j]]]) + Nid
    IN  Array([j \in 1 .. nsize |-> total_load - ld[m[j]] * nsize])

\* ipart = partition // nsize   (an empty array when nsize = 0)
IPart(partition, nsize) ==
    Array([j \in 1 .. nsize |-> partition[j] \div nsize])

\* rem = (partition % nsize).sum() // nsize
\* with nsize = 0 the array is empty, its sum is 0 and numpy's integer
\* 0 // 0 evaluates to 0 (with a RuntimeWarning)
Rem(partition, nsize) ==
    IF nsize = 0 THEN 0
    ELSE SumSeq([j \in 1 .. nsize |-> partition[j] % nsize]) \div nsize

\* variant of Spread: the remainder is dropped
Spread_none(ipart, rem) == ipart

\* variant of Spread: the whole remainder goes to the last entry
Spread_lump(ipart, rem) ==
    Array([j \in 1 .. Len(ipart) |->
        IF j = Len(ipart) THEN ipart[j] + rem ELSE ipart[j]])

\* ipart[:-int(1+rem):-1] += 1 : the last rem entries (all of them when
\* rem exceeds the length) are incremented
Spread(ipart, rem) ==
    Array([j \in 1 .. Len(ipart) |->
        IF j > Len(ipart) - rem THEN ipart[j] + 1 ELSE ipart[j]])

\* part = np.zeros_like(self.load); part[li] = ipart
Part(ld, Nid) ==
    LET li == Eligible(ld, Nid)
        nsize == NSize(li)
        m == Masked(li)
        partition == Partition(ld, li, Nid)
        ipart == Spread(IPart(partition, nsize), Rem(partition, nsize))
    IN  Array([r \in Ranks |->
            IF li[r] THEN ipart[CHOOSE j \in 1 .. nsize : m[j] = r] ELSE 0])

\* variant of CumSum: the allocations themselves, not their running sum
CumSum_none(part) == part

\* cumpart = np.cumsum(part)
CumSum(part) ==
    Array([r \in Ranks |-> SumSeq([j \in 1 .. (r + 1) |-> part[j - 1]])])

\* variant of RankFor: items dealt out in turn
RankFor_rr(i, cumpart) == i % size

\* r = rlist[i < cumpart][0] : the first rank whose boundary exceeds i;
\* -1 stands for the IndexError raised when no boundary exceeds i
RankFor(i, cumpart) ==
    IF \E r \in Ranks : i < cumpart[r]
    THEN CHOOSE r \in Ranks :
            i < cumpart[r] /\ \A q \in Ranks : q < r => ~(i < cumpart[q])
    ELSE -1

\* number of items the loop `for i,k in enumerate(idlist)` handles before it
\* either ends or raises
Handled(Nid, cumpart) ==
    IF \E i \in 0 .. (Nid - 1) : RankFor(i, cumpart) = -1
    THEN CHOOSE i \in 0 .. (Nid - 1) :
            /\ RankFor(i, cumpart) = -1
            /\ \A h \in 0 .. (i - 1) : RankFor(h, cumpart) # -1
    ELSE Nid

\* out[r].append(i), for the items handled
Out(h, cumpart) ==
    [r \in Ranks |->
        LET mine(i) == RankFor(i, cumpart) = r
        IN  SelectSeq([j \in 1 .. h |-> j - 1], mine)]

\* variant of RankOfAfter: the mapping is rebuilt from this call alone
RankOfAfter_reset(ro, ids, h, cumpart) ==
    [k \in {ids[j] : j \in 1 .. h} |->
        RankFor((CHOOSE j \in 1 .. h : ids[j] = k /\
                    \A q \in 1 .. h : ids[q] = k => q <= j) - 1, cumpart)]

\* self.rank_of[k] = r, for the items handled; a key occurring more than once
\* keeps the rank of its last occurrence
RankOfAfter(ro, ids, h, cumpart) ==
    LET pos(k) == {j \in 1 .. h : ids[j] = k}
        last(k) == CHOOSE j \in pos(k) : \A q \in pos(k) : q <= j
        new == {ids[j] : j \in 1 .. h}
    IN  [k \in (DOMAIN ro) \cup new |->
            IF k \in new THEN RankFor(last(k) - 1, cumpart) ELSE ro[k]]

(* ----------------------- LoadManager operations ------------------------ *)
\* LoadManager.__init__
InitLoadManager ==
    /\ load = [r \in Ranks |-> 0]
    /\ rank_of = <<>>
    /\ mode = "new"
    /\ idlist = <<>>
    /\ ret = [r \in Ranks |-> <<>>]
    /\ raised = FALSE
    /\ load0 = [r \in Ranks |-> 0]
    /\ given = [r \in Ranks |-> 0]

\* assign(), idlist is None
AssignAnon ==
    /\ SumLoad(load) + 1 <= MaxLoad
    /\ LET r == AnonRank(load)
       IN  /\ load' = [load EXCEPT ![r] = @ + 1]
           /\ ret' = AnonOut(r)
           /\ given' = [q \in Ranks |-> given[q] + Len(AnonOut(r)[q])]
    /\ mode' = "anon"
    /\ idlist' = <<>>
    /\ raised' = FALSE
    /\ load0' = load
    /\ UNCHANGED rank_of
    /\ UNCHANGED <<engvars, parvars, redvars>>

\* assign(idlist)
AssignBulk ==
    \E ids \in SeqsUpTo(Keys, MaxN) :
        /\ SumLoad(load) + Len(ids) <= MaxLoad
        /\ LET Nid == Len(ids)
               part == Part(load, Nid)
               cumpart == CumSum(part)
               h == Handled(Nid, cumpart)
           IN  /\ load' = [r \in Ranks |-> load[r] + part[r]]
               /\ rank_of' = RankOfAfter(rank_of, ids, h, cumpart)
               /\ ret' = Out(h, cumpart)
               /\ raised' = (h < Nid)
               /\ given' = IF h < Nid THEN given
                           ELSE [r \in Ranks |->
                                    given[r] + Len(Out(h, cumpart)[r])]
        /\ mode' = "bulk"
        /\ idlist' = ids
        /\ load0' = load
        /\ UNCHANGED <<engvars, parvars, redvars>>

NextLM == AssignAnon \/ AssignBulk


(* ------------------------ LoadManager properties ----------------------- *)
\* positions <<r, p>> of the returned lists that hold index i
Holders(i) == {rp \in Ranks \X (1 .. Len(idlist)) :
                  rp[2] <= Len(ret[rp[1]]) /\ ret[rp[1]][rp[2]] = i}

\* C1: after every bulk call assign(items) with N items the returned lists
\* are pairwise disjoint and their union is exactly {0..N-1}: every index
\* is held at exactly one position, and no list holds anything else.
C1_Partition ==
    mode = "bulk" =>
        /\ ~raised
        /\ \A i \in 0 .. (Len(idlist) - 1) : Cardinality(Holders(i)) = 1
        /\ \A r \in Ranks : \A p \in 1 .. Len(ret[r]) :
                ret[r][p] \in 0 .. (Len(idlist) - 1)

\* a bulk call on a manager that already carries load, spreading at least
\* three items over at least two ranks
C1_Witness ==
    /\ mode = "bulk" /\ Len(idlist) >= 3
    /\ \E r \in Ranks : load0[r] > 0
    /\ \E r, q \in Ranks : r # q /\ ret[r] # <<>> /\ ret[q] # <<>>

\* C2: no assign call, anonymous or bulk, decreases the load of any rank.
C2_LoadMonotone == [][\A r \in Ranks : load'[r] >= load[r]]_lmvars

\* a bulk call that leaves one loaded rank alone and raises another
C2_Witness ==
    /\ mode = "bulk"
    /\ \E r \in Ranks : load0[r] > 0 /\ load[r] = load0[r]
    /\ \E r \in Ranks : load[r] > load0[r]

Range(s) == {s[j] : j \in 1 .. Len(s)}

\* C3 as stated: once rank_of holds an entry for a key, no later assign call
\* removes the entry or changes the rank it maps to.
C3_Original ==
    [][\A k \in DOMAIN rank_of :
          k \in DOMAIN rank_of' /\ rank_of'[k] = rank_of[k]]_lmvars

\* C3 amended: no assign call removes an entry of rank_of, and the rank of
\* a key changes only in a bulk call whose idlist contains that key again.
C3_Amended ==
    [][\A k \in DOMAIN rank_of :
          /\ k \in DOMAIN rank_of'
          /\ rank_of'[k] # rank_of[k] =>
                (mode' = "bulk" /\ k \in Range(idlist'))]_lmvars

\* a recorded key survived a bulk call that assigned other keys only
C3_Witness ==
    /\ mode = "bulk" /\ idlist # <<>>
    /\ \E k \in DOMAIN rank_of : k \notin Range(idlist)

\* C8: an anonymous assign() picks the highest-indexed rank among those of
\* minimum load, raises that rank's load by exactly 1, leaves the other
\* loads and rank_of unchanged and returns [0] at that rank, [] elsewhere.
C8_Anonymous ==
    [][mode' = "anon" =>
        \E r \in Ranks :
            /\ \A q \in Ranks : load[q] >= load[r]
            /\ \A q \in Ranks : q > r => load[q] > load[r]
            /\ load'[r] = load[r] + 1
            /\ \A q \in Ranks : q # r => load'[q] = load[q]
            /\ rank_of' = rank_of
            /\ raised' = FALSE
            /\ ret'[r] = <<0>>
            /\ \A q \in Ranks : q # r => ret'[q] = <<>>]_lmvars

\* an anonymous call that had to break a tie between two minimum ranks,
\* on a manager that has keys recorded
C8_Witness ==
    /\ mode = "anon"
    /\ DOMAIN rank_of # {}
    /\ \E r, q \in Ranks :
          /\ r < q /\ load0[r] = load0[q]
          /\ \A x \in Ranks : load0[x] >= load0[r]
          /\ load[q] = load0[q] + 1

\* C9: a bulk call of N items on a manager whose ranks all carry the same
\* load gives every rank floor(N/P) or floor(N/P)+1 items, N in total.
C9_Fair ==
    (mode = "bulk" /\ \A r, q \in Ranks : load0[r] = load0[q]) =>
        /\ ~raised
        /\ \A r \in Ranks :
              Len(ret[r]) \in {Len(idlist) \div size,
                               (Len(idlist) \div size) + 1}
        /\ SumSeq([j \in 1 .. size |-> Len(ret[j - 1])]) = Len(idlist)

\* equal positive loads and a number of items that P does not divide, with
\* at least two items left over
C9_Witness ==
    /\ mode = "bulk"
    /\ \A r, q \in Ranks : load0[r] = load0[q]
    /\ load0[0] > 0
    /\ Len(idlist) % size >= 2

RECURSIVE Concat(_)
\* the lists of ranks 0..n-1 one after the other
Concat(n) == IF n = 0 THEN <<>> ELSE Concat(n - 1) \o ret[n - 1]

\* C10: after every bulk call the returned lists, concatenated in rank
\* order, read 0,1,...,N-1.
C10_Ordered ==
    mode = "bulk" =>
        /\ ~raised
        /\ Concat(size) = [j \in 1 .. Len(idlist) |-> j - 1]

\* three ranks or more hold items after a bulk call on a loaded manager
C10_Witness ==
    /\ mode = "bulk"
    /\ \E r \in Ranks : load0[r] > 0
    /\ Cardinality({r \in Ranks : ret[r] # <<>>}) >= 2
    /\ \E r \in Ranks : Len(ret[r]) >= 2

(* ------------------------------ BaseEngine ------------------------------ *)
\* the engine fields that iterate() works on
Engine == [curiter |-> curiter, errorlist |-> errorlist,
           itermeta |-> itermeta, finished |-> finished,
           iter_info |-> iter_info, hooks |-> hooks, barriers |-> barriers]

\* if self.curiter == self.numiter: self.finished = True
Finish(c) == c = numiter

\* self.meta after the four assignments of one pass (the wall-clock duration
\* is left out)
Meta(c, error) == [iteration |-> c, engine |-> "BaseEngine", error |-> error]

\* meta = {'iterations': len(iter_info)}; meta.update(self.meta.copy())
RunInfo(info, meta) ==
    [iterations |-> Len(info), iteration |-> meta.iteration,
     engine |-> meta.engine, error |-> meta.error]

\* variant of Pass: no barrier after the pass that sets finished
Pass_skipbarrier(e, error) ==
    LET c == e.curiter + 1
    IN  [curiter |-> c,
         errorlist |-> Append(e.errorlist, error),
         itermeta |-> Append(e.itermeta, Meta(c, error)),
         finished |-> (e.finished \/ Finish(c)),
         iter_info |-> Append(e.iter_info, RunInfo(e.iter_info, Meta(c, error))),
         hooks |-> e.hooks + 1,
         barriers |-> IF Finish(c) THEN e.barriers ELSE e.barriers + 1]

\* one pass of the body of the for loop, error being what the hook returned
Pass(e, error) ==
    LET c == e.curiter + 1
    IN  [curiter |-> c,
         errorlist |-> Append(e.errorlist, error),
         itermeta |-> Append(e.itermeta, Meta(c, error)),
         finished |-> (e.finished \/ Finish(c)),
         iter_info |-> Append(e.iter_info, RunInfo(e.iter_info, Meta(c, error))),
         hooks |-> e.hooks + 1,
         barriers |-> e.barriers + 1]

\* N = self.p.numiter_contiguous; if num is not None: N = num
\* (num is <<>> for None and <<n>> for the integer n)
Batch(num) == IF num = <<>> THEN numiter_contiguous ELSE num[1]

\* variant of Loop: without the break on finished
RECURSIVE Loop_nobreak(_, _, _, _)
Loop_nobreak(e, n, N, errs) ==
    IF n >= N THEN e
    ELSE Loop_nobreak(Pass(e, errs[n + 1]), n + 1, N, errs)

RECURSIVE Loop(_, _, _, _)
\* for n in range(N): if self.finished: break; <body>
Loop(e, n, N, errs) ==
    IF n >= N THEN e
    ELSE IF e.finished THEN e
    ELSE Loop(Pass(e, errs[n + 1]), n + 1, N, errs)

\* BaseEngine.__init__
InitEngine ==
    /\ initialized = FALSE
    /\ curiter = 0
    /\ errorlist = <<>>
    /\ itermeta = <<>>
    /\ finished = FALSE
    /\ iter_info = <<>>
    /\ hooks = 0
    /\ barriers = 0
    /\ lastcall = [op |-> "new", num |-> <<>>]
    /\ run = -1
    /\ ncalls = 0

\* variant of Initialize: finished is cleared as well
Initialize_reset ==
    /\ ncalls < MaxCalls
    /\ initialized' = TRUE
    /\ curiter' = 0
    /\ errorlist' = <<>>
    /\ finished' = FALSE
    /\ lastcall' = [op |-> "initialize", num |-> <<>>]
    /\ run' = -1
    /\ ncalls' = ncalls + 1
    /\ UNCHANGED <<itermeta, iter_info, hooks, barriers>>
    /\ UNCHANGED <<lmvars, parvars, redvars>>

\* BaseEngine.initialize
Initialize ==
    /\ ncalls < MaxCalls
    /\ initialized' = TRUE
    /\ curiter' = 0
    /\ errorlist' = <<>>
    /\ lastcall' = [op |-> "initialize", num |-> <<>>]
    /\ run' = -1
    /\ ncalls' = ncalls + 1
    /\ UNCHANGED <<itermeta, finished, iter_info, hooks, barriers>>
    /\ UNCHANGED <<lmvars, parvars, redvars>>

\* BaseEngine.prepare (the flag is cleared before anything in it can fail)
Prepare ==
    /\ ncalls < MaxCalls
    /\ finished' = FALSE
    /\ lastcall' = [op |-> "prepare", num |-> <<>>]
    /\ run' = IF initialized /\ curiter = 0 /\ errorlist = <<>>
              THEN 0 ELSE -1
    /\ ncalls' = ncalls + 1
    /\ UNCHANGED <<initialized, curiter, errorlist, itermeta, iter_info,
                   hooks, barriers>>
    /\ UNCHANGED <<lmvars, parvars, redvars>>

\* BaseEngine.iterate(num)
Iterate ==
    \E num \in {<<>>} \cup {<<n>> : n \in -1 .. MaxNum} :
    \E errs \in [1 .. MaxNum -> Errors] :
        /\ ncalls < MaxCalls
        /\ IF initialized
           THEN LET e == Loop(Engine, 0, Batch(num), errs)
                IN  /\ curiter' = e.curiter
                    /\ errorlist' = e.errorlist
                    /\ itermeta' = e.itermeta
                    /\ finished' = e.finished
                    /\ iter_info' = e.iter_info
                    /\ hooks' = e.hooks
                    /\ barriers' = e.barriers
           ELSE \* self.errorlist does not exist: the first pass calls the
                \* hook and then ends the call with an AttributeError
                /\ hooks' = IF Batch(num) >= 1 /\ ~finished
                            THEN hooks + 1 ELSE hooks
                /\ UNCHANGED <<curiter, errorlist, itermeta, finished,
                               iter_info, barriers>>
        /\ lastcall' = [op |-> "iterate", num |-> num]
        /\ run' = IF run >= 0 /\ num = <<>> THEN run + 1 ELSE -1
        /\ ncalls' = ncalls + 1
        /\ UNCHANGED initialized
        /\ UNCHANGED <<lmvars, parvars, redvars>>

\* BaseEngine.finalize
Finalize ==
    /\ ncalls < MaxCalls
    /\ lastcall' = [op |-> "finalize", num |-> <<>>]
    /\ ncalls' = ncalls + 1
    /\ UNCHANGED <<initialized, curiter, errorlist, itermeta, finished,
                   iter_info, hooks, barriers, run>>
    /\ UNCHANGED <<lmvars, parvars, redvars>>

NextEng == Initialize \/ Prepare \/ Iterate \/ Finalize

(* ------------------- BaseEngine.iterate on every rank ------------------- *)
\* MPIenabled = not (size==1)
MPIenabled(n) == ~(n = 1)

\* variant of Barrier: a rank waits until every rank, itself included, has
\* entered a later barrier
Barrier_strict(r, e) ==
    \/ ~MPIenabled(size)
    \/ \A q \in Ranks : e[q].barriers > e[r].barriers

\* variant of Barrier: returns at once
Barrier_open(r, e) == TRUE

\* parallel.barrier(): returns at once without MPI; comm.Barrier() lets rank
\* r leave its k-th barrier once every rank has entered its k-th barrier
Barrier(r, e) ==
    \/ ~MPIenabled(size)
    \/ \A q \in Ranks : e[q].barriers >= e[r].barriers

\* every rank holds an initialized and prepared engine
StartPar ==
    /\ eng = [r \in Ranks |->
                [curiter |-> 0, errorlist |-> <<>>, itermeta |-> <<>>,
                 finished |-> FALSE, iter_info |-> <<>>, hooks |-> 0,
                 barriers |-> 0]]
    /\ pc = [r \in Ranks |-> "idle"]
    /\ loopn = [r \in Ranks |-> 0]
    /\ loopN = [r \in Ranks |-> 0]
    /\ callno = [r \in Ranks |-> 0]

\* the ranks are given the same sequence of iterate calls to make
InitPar ==
    /\ StartPar
    /\ sched \in SeqsUpTo({<<>>} \cup {<<n>> : n \in 0 .. MaxNum}, MaxSched)

\* rank r calls iterate(num): N is set
RankCall(r) ==
    /\ pc[r] = "idle"
    /\ callno[r] < Len(sched)
    /\ callno' = [callno EXCEPT ![r] = @ + 1]
    /\ loopN' = [loopN EXCEPT ![r] = Batch(sched[callno[r] + 1])]
    /\ loopn' = [loopn EXCEPT ![r] = 0]
    /\ pc' = [pc EXCEPT ![r] = "loop"]
    /\ UNCHANGED <<eng, sched>>
    /\ UNCHANGED <<lmvars, engvars, redvars>>

\* for n in range(N): if self.finished: break -- rank r either enters
\* engine_iterate or leaves iterate
RankLoop(r) ==
    /\ pc[r] = "loop"
    /\ pc' = [pc EXCEPT ![r] =
                IF loopn[r] >= loopN[r] \/ eng[r].finished
                THEN "idle" ELSE "hook"]
    /\ UNCHANGED <<eng, loopn, loopN, callno, sched>>
    /\ UNCHANGED <<lmvars, engvars, redvars>>

\* engine_iterate returns on rank r, the bookkeeping of the pass is done and
\* parallel.barrier() is entered
RankPass(r) ==
    /\ pc[r] = "hook"
    /\ \E error \in {0} : eng' = [eng EXCEPT ![r] = Pass(@, error)]
    /\ pc' = [pc EXCEPT ![r] = "barrier"]
    /\ UNCHANGED <<loopn, loopN, callno, sched>>
    /\ UNCHANGED <<lmvars, engvars, redvars>>

\* parallel.barrier() returns on rank r
RankBarrier(r) ==
    /\ pc[r] = "barrier"
    /\ Barrier(r, eng)
    /\ pc' = [pc EXCEPT ![r] = "loop"]
    /\ loopn' = [loopn EXCEPT ![r] = @ + 1]
    /\ UNCHANGED <<eng, loopN, callno, sched>>
    /\ UNCHANGED <<lmvars, engvars, redvars>>

NextPar ==
    \E r \in Ranks : RankCall(r) \/ RankLoop(r) \/ RankPass(r) \/ RankBarrier(r)

(* -------------------------------- _MPIop -------------------------------- *)
Procs == 0 .. (nproc - 1)

\* outcome of a call: a value, an uncaught ValueError, or no return at all
\* (the process waits in comm.Allreduce for a peer that never joins)
Ok(v) == [status |-> "ok", val |-> v]
ValueError == [status |-> "ValueError", val |-> 0]
Blocked == [status |-> "blocked", val |-> 0]
NoResult == [status |-> "none", val |-> 0]
\* an array, a list of scalars and None, a generator object, an uncaught
\* TypeError
Arr(v) == [status |-> "array", val |-> v]
Lst(v) == [status |-> "list", val |-> v]
Generator == [status |-> "generator", val |-> 0]
TypeError == [status |-> "TypeError", val |-> 0]

Max2(x, y) == IF x >= y THEN x ELSE y
Min2(x, y) == IF x <= y THEN x ELSE y

\* MPI.SUM, MPI.MAX, MPI.MIN, MPI.PROD on two values
MPIop2(o, x, y) ==
    CASE o = "SUM" -> x + y
      [] o = "MAX" -> Max2(x, y)
      [] o = "MIN" -> Min2(x, y)
      [] o = "PROD" -> x * y

RECURSIVE Fold(_, _)
\* o applied to the values of a non-empty sequence
Fold(o, s) ==
    IF Len(s) = 1 THEN s[1] ELSE MPIop2(o, s[1], Fold(o, Tail(s)))

\* np.sum, np.max, np.min, np.prod of a sequence: the sum of nothing is 0,
\* the product of nothing is 1, the maximum and the minimum of nothing raise
\* ValueError
Npop(o, s) ==
    IF s # <<>> THEN Ok(Fold(o, s))
    ELSE CASE o = "SUM" -> Ok(0)
           [] o = "PROD" -> Ok(1)
           [] o = "MAX" -> ValueError
           [] o = "MIN" -> ValueError

\* [npop(ai) for ai in a if ai is not None]
LocalList(o, al) ==
    LET notNone(ai) == ai # <<>>
        kept == SelectSeq(al, notNone)
    IN  [j \in 1 .. Len(kept) |-> Npop(o, kept[j]).val]

\* s = np.array([ npop( [npop(ai) for ai in a if ai is not None] ) ])
LocalScalar(o, al) == Npop(o, LocalList(o, al))

\* comm.Allreduce(MPI.IN_PLACE, s, op=MPIop) over the processes of n, each
\* holding loc[r]
Allreduce(o, loc, n) == Fold(o, [j \in 1 .. n |-> loc[j - 1].val])

\* _MPIop(a, op, axis=None) on every process: rank -> outcome
MPIopNone(o, al, n) ==
    LET loc == Array([r \in 0 .. (n - 1) |-> LocalScalar(o, al[r])])
        raising == {r \in 0 .. (n - 1) : loc[r].status # "ok"}
    IN  [r \in 0 .. (n - 1) |->
            IF r \in raising THEN loc[r]
            ELSE IF ~MPIenabled(n) THEN loc[r]
            ELSE IF raising # {} THEN Blocked
            ELSE Ok(Allreduce(o, loc, n))]

\* o applied elementwise to the arrays of a non-empty sequence, all of one
\* length
VecFold(o, vs) ==
    [i \in 1 .. Len(vs[1]) |-> Fold(o, [j \in 1 .. Len(vs) |-> vs[j][i]])]

\* variant of LocalAxis0: the first locally owned array stands for all
LocalAxis0_first(o, al) ==
    LET notNone(ai) == ai # <<>>
        kept == SelectSeq(al, notNone)
    IN  IF o # "SUM" THEN Generator
        ELSE IF kept = <<>> THEN Ok(0)
        ELSE Arr(kept[1])

\* s = npop(ai for ai in a if ai is not None): np.sum hands a generator to
\* the builtin sum, 0 + a1 + a2 + ..., which is the int 0 when nothing is
\* left; np.max, np.min and np.prod wrap the generator in a 0-d object
\* array and hand the generator object back
LocalAxis0(o, al) ==
    LET notNone(ai) == ai # <<>>
        kept == SelectSeq(al, notNone)
    IN  IF o # "SUM" THEN Generator
        ELSE IF kept = <<>> THEN Ok(0)
        ELSE Arr(VecFold("SUM", kept))

\* _MPIop(a, op, axis=0) on every process: comm.Allreduce takes arrays
\* only, a process that holds anything else raises and leaves its peers
\* waiting
MPIopAxis0(o, al, n) ==
    LET loc == Array([r \in 0 .. (n - 1) |-> LocalAxis0(o, al[r])])
        raising == {r \in 0 .. (n - 1) : loc[r].status # "array"}
    IN  [r \in 0 .. (n - 1) |->
            IF ~MPIenabled(n) THEN loc[r]
            ELSE IF r \in raising THEN TypeError
            ELSE IF raising # {} THEN Blocked
            ELSE Arr(VecFold(o, [j \in 1 .. n |-> loc[j - 1].val]))]

\* variant of MPIopLocal: the list is handed back as it came
MPIopLocal_asis(o, al) == Lst(al)

\* [npop(ai, axis=axis-1) if ai is not None else None for ai in a], for
\* one-dimensional arrays and axis = 1
MPIopLocal(o, al) ==
    Lst([j \in 1 .. Len(al) |->
            IF al[j] = <<>> THEN <<>> ELSE <<Fold(o, al[j])>>])

\* _MPIop(a, op, axis) on every process: rank -> outcome
MPIopAll(o, al, ax, n) ==
    CASE ax = "None" -> MPIopNone(o, al, n)
      [] ax = "0" -> MPIopAxis0(o, al, n)
      [] ax = "1" -> [r \in 0 .. (n - 1) |-> MPIopLocal(o, al[r])]

\* allreduce(a, op) on every process: rank -> contents of a after the call;
\* nothing is done without MPI, op None is MPI.SUM
allreduce(o, b, n) ==
    IF ~MPIenabled(n) THEN b
    ELSE LET mpiop == IF o = "None" THEN "SUM" ELSE o
         IN  [r \in 0 .. (n - 1) |->
                VecFold(mpiop, [j \in 1 .. n |-> b[j - 1]])]

\* barrier() returns on rank r: at once without MPI; comm.Barrier() returns
\* once every process has entered
barrier(n, b, r) ==
    \/ ~MPIenabled(n)
    \/ \A q \in 0 .. (n - 1) : b[q] # "out"

\* the values of the variables that the chosen operation does not use
NoLists == a = [r \in Procs |-> <<>>] /\ axis = "None"
NoBuffers == buf = [r \in Procs |-> <<>>]

\* the processes are about to call one collective operation: _MPIop with
\* lists of the same length holding None or arrays of one length, allreduce
\* with arrays of one length, or barrier
InitRed ==
    /\ nproc \in 1 .. MaxRanks
    /\ coll \in {"MPIop", "allreduce", "barrier"}
    /\ \/ /\ coll = "MPIop"
          /\ \E len \in 1 .. MaxSlots : \E vlen \in VecLens :
                a \in [Procs -> [1 .. len -> {<<>>} \cup ArraysOf(vlen)]]
          /\ op \in {"SUM", "MAX", "MIN", "PROD"}
          /\ axis \in {"None", "0", "1"}
          /\ NoBuffers
       \/ /\ coll = "allreduce"
          /\ \E vlen \in VecLens : buf \in [Procs -> ArraysOf(vlen)]
          /\ op \in {"None", "SUM", "MAX", "MIN", "PROD"}
          /\ NoLists
       \/ /\ coll = "barrier"
          /\ op = "None"
          /\ NoLists /\ NoBuffers
    /\ result = [r \in Procs |-> NoResult]
    /\ called = FALSE
    /\ bar = [r \in Procs |-> "out"]

\* every process calls _MPIop(a, op, axis)
MPIop ==
    /\ coll = "MPIop"
    /\ ~called
    /\ result' = MPIopAll(op, a, axis, nproc)
    /\ called' = TRUE
    /\ UNCHANGED <<nproc, coll, a, op, axis, buf, bar>>
    /\ UNCHANGED <<lmvars, engvars, parvars>>

\* every process calls allreduce(a, op)
CallAllreduce ==
    /\ coll = "allreduce"
    /\ ~called
    /\ buf' = allreduce(op, buf, nproc)
    /\ called' = TRUE
    /\ UNCHANGED <<nproc, coll, a, op, axis, result, bar>>
    /\ UNCHANGED <<lmvars, engvars, parvars>>

\* process r calls barrier()
BarrierEnter(r) ==
    /\ coll = "barrier"
    /\ bar[r] = "out"
    /\ bar' = [bar EXCEPT ![r] = "in"]
    /\ UNCHANGED <<nproc, coll, a, op, axis, result, called, buf>>
    /\ UNCHANGED <<lmvars, engvars, parvars>>

\* barrier() returns on process r
BarrierLeave(r) ==
    /\ coll = "barrier"
    /\ bar[r] = "in"
    /\ barrier(nproc, bar, r)
    /\ bar' = [bar EXCEPT ![r] = "done"]
    /\ UNCHANGED <<nproc, coll, a, op, axis, result, called, buf>>
    /\ UNCHANGED <<lmvars, engvars, parvars>>

NextRed ==
    \/ MPIop
    \/ CallAllreduce
    \/ \E r \in Procs : BarrierEnter(r) \/ BarrierLeave(r)

(* ---------------------------- specifications ---------------------------- *)
vars == <<lmvars, engvars, parvars, redvars>>

\* the components that a specification leaves alone
IdlePar == StartPar /\ sched = <<>>

IdleRed ==
    /\ nproc = 1
    /\ coll = "barrier"
    /\ op = "None"
    /\ NoLists /\ NoBuffers
    /\ result = [r \in {0} |-> NoResult]
    /\ called = FALSE
    /\ bar = [r \in {0} |-> "out"]

\* one LoadManager under arbitrary assign calls
InitLM == InitLoadManager /\ InitEngine /\ IdlePar /\ IdleRed
SpecLM == InitLM /\ [][NextLM]_vars

\* one engine under arbitrary lifecycle calls
InitEng == InitLoadManager /\ InitEngine /\ IdlePar /\ IdleRed
SpecEng == InitEng /\ [][NextEng]_vars

\* the ranks of an MPI run in the iterate loop
InitParallel == InitLoadManager /\ InitEngine /\ InitPar /\ IdleRed
SpecPar == InitParallel /\ [][NextPar]_vars

\* one step of rank r
RankNext(r) == RankCall(r) \/ RankLoop(r) \/ RankPass(r) \/ RankBarrier(r)

\* every rank is a process of its own that keeps running: a rank that can
\* take a step (make its next call, test the loop, return from the engine
\* step, leave a barrier that has filled) eventually takes it
SpecParFair ==
    InitParallel /\ [][NextPar]_vars /\ \A r \in Ranks : WF_vars(RankNext(r))

\* one collective call of _MPIop
InitReduce == InitLoadManager /\ InitEngine /\ IdlePar /\ InitRed
SpecRed == InitReduce /\ [][NextRed]_vars

(* --------------------------- engine properties -------------------------- *)
\* C4 as stated: once finished is true, no later lifecycle call makes it
\* false again.
C4_Original == [][finished => finished']_vars

\* C4 amended: once finished is true it stays true under every later
\* initialize, iterate and finalize call; only prepare() sets it back to
\* false.
C4_Amended == [][(finished /\ ~finished') => lastcall'.op = "prepare"]_vars

\* a finished engine was initialized again and is still finished
C4_Witness == finished /\ lastcall.op = "initialize" /\ curiter = 0

\* C6: on an initialized and prepared engine with budget B = numiter and
\* batch size 1, the B-th iterate() call leaves finished true, the counter
\* at B and B errors in the history; every further iterate() call changes
\* neither the counter, the error history, the record history nor the
\* run-info log, and does not call the engine_iterate hook.
C6_Budget ==
    [][/\ run' = numiter =>
            (finished' /\ curiter' = numiter /\ Len(errorlist') = numiter)
       /\ (run >= numiter /\ run' = run + 1) =>
            UNCHANGED <<curiter, errorlist, itermeta, iter_info, hooks,
                        finished>>]_vars

\* one iterate() call too many was made on an engine that ran its budget
C6_Witness ==
    /\ run = numiter + 1 /\ lastcall.op = "iterate"
    /\ finished /\ curiter = numiter /\ hooks = numiter

\* C5: in the lock-step run the counters of two ranks never differ by more
\* than 1, and while a rank is inside the engine step of iteration n+1
\* every rank has completed iteration n and entered the barrier after it.
C5_LockStep ==
    \A r, q \in Ranks :
        /\ eng[r].curiter - eng[q].curiter <= 1
        /\ pc[r] = "hook" =>
              /\ eng[q].curiter >= eng[r].curiter
              /\ eng[q].barriers >= eng[r].curiter

\* a rank runs the step of its second iteration or a later one while
\* another rank has not left the barrier yet
C5_Witness ==
    \E r, q \in Ranks :
        pc[r] = "hook" /\ eng[r].curiter >= 1 /\ pc[q] = "barrier"

(* ------------------------- reduction properties ------------------------- *)
\* the non-absent entries of all processes, one after the other
RECURSIVE Present(_, _)
Present(r, j) ==
    IF r = nproc THEN <<>>
    ELSE IF j > Len(a[r]) THEN Present(r + 1, 1)
    ELSE a[r][j] \o Present(r, j + 1)

RECURSIVE Total(_), Product(_)
Total(s) == IF s = <<>> THEN 0 ELSE s[1] + Total(Tail(s))
Product(s) == IF s = <<>> THEN 1 ELSE s[1] * Product(Tail(s))

\* op applied to all the values of s
Reduced(o, s) ==
    CASE o = "SUM" -> Total(s)
      [] o = "PROD" -> Product(s)
      [] o = "MAX" -> CHOOSE v \in Range(s) : \A w \in Range(s) : w <= v
      [] o = "MIN" -> CHOOSE v \in Range(s) : \A w \in Range(s) : v <= w

\* C7: with axis = None and at least one non-absent entry overall, the call
\* returns on every process the same scalar, op applied to all non-absent
\* entries of all processes -- also when a process holds absent entries
\* only.
C7_Reduce ==
    (called /\ axis = "None" /\ Present(0, 1) # <<>>) =>
        \A r \in Procs : result[r] = Ok(Reduced(op, Present(0, 1)))

(* ----------------------- engine properties, continued ------------------- *)
\* C11: after any sequence of lifecycle calls the k-th record of the
\* per-run record history carries iteration index k (indices start at 1
\* and grow by exactly 1).
C11_RecordIndex ==
    \A k \in 1 .. Len(itermeta) : itermeta[k].iteration = k

\* C12: iterate(num) on an unfinished engine performs exactly one iteration
\* whenever num is None or num < 1.
C12_SingleIteration ==
    [][(/\ lastcall'.op = "iterate"
        /\ initialized /\ ~finished
        /\ (lastcall'.num = <<>> \/ lastcall'.num[1] < 1)) =>
            (/\ curiter' = curiter + 1
             /\ hooks' = hooks + 1
             /\ Len(errorlist') = Len(errorlist) + 1)]_vars

\* C17: the iteration counter never exceeds the budget: once the counter
\* has reached numiter, no later iterate call runs the engine_iterate hook
\* or appends a record, whatever prepare, iterate and finalize calls were
\* made in between.
C17_BudgetTerminal ==
    [][/\ curiter' <= numiter
       /\ (curiter = numiter /\ lastcall'.op = "iterate") =>
             (hooks' = hooks /\ itermeta' = itermeta
              /\ iter_info' = iter_info)]_vars

\* the smaller of two integers
Least(x, y) == IF x <= y THEN x ELSE y

\* C19: on an initialized, unfinished engine with counter c < numiter a call
\* iterate(n), n >= 1, performs exactly min(n, numiter - c) iterations; each
\* appends one error, one record and one run-info entry and calls barrier
\* once, so the barrier calls always match the completed iterations.
C19_BatchCount ==
    [][/\ (/\ lastcall'.op = "iterate"
           /\ lastcall'.num # <<>> /\ lastcall'.num[1] >= 1
           /\ initialized /\ ~finished /\ curiter < numiter) =>
            LET k == Least(lastcall'.num[1], numiter - curiter)
            IN  /\ curiter' = curiter + k
                /\ hooks' = hooks + k
                /\ Len(errorlist') = Len(errorlist) + k
                /\ Len(itermeta') = Len(itermeta) + k
                /\ Len(iter_info') = Len(iter_info) + k
                /\ barriers' = barriers + k
       /\ barriers' = Len(itermeta')]_vars

\* a call iterate(n) with n >= 2 completed the budget of an engine that was
\* initialized once: every pass so far appended its error and its records
\* and called barrier
C19_Witness ==
    /\ lastcall.op = "iterate" /\ lastcall.num # <<>>
    /\ lastcall.num[1] >= 2
    /\ finished /\ curiter = numiter
    /\ Len(errorlist) = numiter /\ Len(itermeta) = numiter
    /\ barriers = numiter /\ hooks = numiter

(* ------------------- LoadManager properties, continued ------------------ *)
\* C15: in every state reached by anonymous and bulk assign calls the loads
\* of any two ranks differ by at most 1.
C15_Balanced == \A r, q \in Ranks : load[r] - load[q] <= 1

\* a bulk call on an uneven manager left it uneven, one apart
C15_Witness ==
    /\ mode = "bulk" /\ idlist # <<>>
    /\ \E r, q \in Ranks : load0[r] # load0[q]
    /\ \E r, q \in Ranks : load[r] = load[q] + 1 /\ load[q] > 0

\* C16: every load is non-negative and equals the number of indices
\* returned for that rank by all calls so far; each call raises load[r] by
\* the length of the list it returns for rank r, a bulk call of N items
\* raises the summed load by N.
C16_Accounting ==
    /\ \A r \in Ranks : load[r] >= 0 /\ load[r] = given[r]
    /\ mode # "new" =>
          /\ ~raised
          /\ \A r \in Ranks : load[r] - load0[r] = Len(ret[r])
    /\ mode = "bulk" =>
          SumSeq([j \in 1 .. size |-> load[j - 1] - load0[j - 1]])
              = Len(idlist)

\* a bulk call handed items to two ranks or more of a loaded manager
C16_Witness ==
    /\ mode = "bulk"
    /\ \E r \in Ranks : load0[r] > 0
    /\ \E r, q \in Ranks : r # q /\ Len(ret[r]) >= 2 /\ Len(ret[q]) >= 1

\* C18: in every bulk call, N >= 0, at least one rank is eligible: the
\* number of ranks with total > load[rank] * P is at least 1.
C18_SomeEligible ==
    mode = "bulk" =>
        \E r \in Ranks :
            SumSeq([j \in 1 .. size |-> load0[j - 1]]) + Len(idlist)
                > load0[r] * size

(* ---------------------- lock-step loop, termination --------------------- *)
\* rank r has returned from the last iterate call of the schedule
Returned(r) == pc[r] = "idle" /\ callno[r] = Len(sched)

\* C20: with the same budget and the same sequence of iterate(n) calls on
\* every rank, under fair scheduling the run reaches, and then stays in, a
\* state where every rank has returned from every iterate call of the
\* sequence -- so no rank is left waiting in a barrier and every call has
\* returned -- and the ranks hold the same counter and the same finished
\* flag.
C20_DeadlockFree ==
    <>[](\A r, q \in Ranks :
            /\ Returned(r)
            /\ eng[r].curiter = eng[q].curiter
            /\ eng[r].finished = eng[q].finished)

\* all ranks have returned from a schedule of two calls or more that used up
\* the budget, each rank having gone through numiter barriers
C20_Witness ==
    /\ Len(sched) >= 2
    /\ \A r \in Ranks :
          /\ Returned(r)
          /\ eng[r].finished /\ eng[r].curiter = numiter
          /\ eng[r].barriers = numiter

(* --------------------- reduction properties, continued ------------------ *)
\* the non-absent arrays of all processes, one after the other
RECURSIVE AllArrays(_, _)
AllArrays(r, j) ==
    IF r = nproc THEN <<>>
    ELSE IF j > Len(a[r]) THEN AllArrays(r + 1, 1)
    ELSE (IF a[r][j] = <<>> THEN <<>> ELSE <<a[r][j]>>)
            \o AllArrays(r, j + 1)

\* the sum of the i-th elements of all non-absent arrays
ElementSum(i) ==
    LET all == AllArrays(0, 1)
    IN  Total([k \in 1 .. Len(all) |-> all[k][i]])

\* C14: _MPIop with axis = 0 and op = SUM, every process contributing
\* vectors of one length: every process gets the same vector, whose i-th
\* element is the sum of the i-th elements of all non-absent contributions
\* of all processes.
C14_AxisSum ==
    (/\ coll = "MPIop" /\ called /\ axis = "0" /\ op = "SUM"
     /\ \A r \in Procs : \E j \in 1 .. Len(a[r]) : a[r][j] # <<>>) =>
        \A r \in Procs :
            /\ result[r].status = "array"
            /\ result[r].val =
                  [i \in 1 .. Len(AllArrays(0, 1)[1]) |-> ElementSum(i)]

\* two processes or more, one of them with an absent entry next to a
\* vector and one with two vectors, have summed two-element vectors
C14_Witness ==
    /\ coll = "MPIop" /\ called /\ axis = "0" /\ op = "SUM"
    /\ nproc >= 2
    /\ \A r \in Procs : \E j \in 1 .. Len(a[r]) : a[r][j] # <<>>
    /\ \E r \in Procs : \E j \in 1 .. Len(a[r]) : a[r][j] = <<>>
    /\ \E r \in Procs : \A j \in 1 .. Len(a[r]) : Len(a[r][j]) = 2
    /\ \A r \in Procs : result[r].status = "array"

\* the outcome res gives back the list al as it is: the same list, or the
\* one array or the one value that the list holds
Same(res, al) ==
    CASE res.status = "list" -> res.val = al
      [] res.status = "array" -> al = <<res.val>>
      [] res.status = "ok" -> al = <<<<res.val>>>>
      [] OTHER -> FALSE

\* the list of the single process leaves nothing to reduce: it is one
\* one-element array (axis None), one array (axis 0), or its arrays have
\* one element each (axis 1)
NothingToReduce ==
    CASE axis = "None" -> Len(a[0]) = 1 /\ Len(a[0][1]) = 1
      [] axis = "0" -> Len(a[0]) = 1
      [] axis = "1" -> \A j \in 1 .. Len(a[0]) : Len(a[0][j]) <= 1

\* the _MPIop call is made in this step
MPIopStep == coll = "MPIop" /\ ~called /\ called'

====
